---- MODULE Spec2Model ----
(***************************************************************************)
(* Model of the goapi service lifecycle (src/main.go): bootstrap of the    *)
(* database, assembly of the chi middleware pipeline, the HTTP server, the *)
(* signal-driven shutdown goroutine and the requests served meanwhile.     *)
(*                                                                         *)
(* Processes: the main goroutine (mainpc), the shutdown goroutine (gpc),   *)
(* one goroutine per accepted request (a record of reqs) and the operating *)
(* system delivering signals.  When main returns or os.Exit is called the  *)
(* whole process is gone: no goroutine takes another step.                 *)
(***************************************************************************)
EXTENDS Naturals, Integers, Sequences, FiniteSets, Bags, TLC

\* ---------------------------------------------------------------- bounds
MaxRequests == 2
MaxMigrations == 2

\* ------------------------------------------------------------- constants
StatusOK == 200
StatusServiceUnavailable == 503
StatusInternalServerError == 500

Signals == {"SIGINT", "SIGTERM", "SIGHUP", "SIGPIPE"}

\* signal.Ignore(syscall.SIGHUP, syscall.SIGPIPE)
IgnoredSignals == {"SIGHUP", "SIGPIPE"}

NotifiedSignals_hup == {"SIGINT", "SIGTERM", "SIGHUP"}

\* signal.Notify(sigquit, syscall.SIGINT, syscall.SIGTERM)
NotifiedSignals == {"SIGINT", "SIGTERM"}

\* make(chan os.Signal, 1)
SigquitCap == 1

Middlewares_loggerFirst == <<"RequestLogger", "RequestID", "RealIP", "Recoverer", "CORS">>

Middlewares_swapped == <<"RequestID", "RealIP", "Recoverer", "RequestLogger", "CORS">>

\* r.Use(RequestID, RealIP, RequestLogger(logger), Recoverer, cm.Handler)
Middlewares == <<"RequestID", "RealIP", "RequestLogger", "Recoverer", "CORS">>

\* the three mounts of the router
Routes == {"/readiness", "/1.0/articles", "/docs"}

RouteMiddlewares_global(route) == <<"ApiVersion">>

\* r.Route("/1.0", ...) installs handler.ApiVersion("1.0") on its sub-router only
RouteMiddlewares(route) ==
    IF route = "/1.0/articles" THEN <<"ApiVersion">> ELSE <<>>

\* the stages a request to `route` meets, outermost first
Chain(route) == Middlewares \o RouteMiddlewares(route)

\* article.Migrations(): the declared, ordered migration ids
Migrations == [k \in 1..MaxMigrations |-> k]

VARIABLES
    mainpc,          \* position of the main goroutine
    exitStatus,      \* "running", "exit0", "exit1", "exit2" (panic), "signal"
    steps,           \* bootstrap steps attempted so far, in order
    failed,          \* the bootstrap step that failed, or "none"
    initErr,         \* err returned by initDatabase
    dbState,         \* "nil", "new", "connected", "migrated", "closed"
    ledger,          \* migration ids recorded in the store, in order of application
    prevRun,         \* "migrated" in a run started after a run that migrated, else "none"
    gpc,             \* position of the shutdown goroutine
    triggeredAt,     \* where main stood when the goroutine received its signal
    ignored,         \* signals with disposition "ignore"
    notified,        \* signals relayed to sigquit
    sigquit,         \* the buffered channel
    termDelivered,   \* a SIGINT or SIGTERM has been delivered to the process
    benignIgnored,   \* a signal has been discarded by the "ignore" disposition
    readinessStatus, \* health package's process-wide status
    writes,          \* calls of health.SetReadinessStatus so far
    inShutdown,      \* srv.Shutdown has been called
    drains,          \* calls of srv.Shutdown so far
    listening,       \* the listener is open and accepting
    srvErr,          \* error returned by ListenAndServe, "nil" while none
    drainErr,        \* srv.Shutdown returned: "none" (not yet), "nil", "err"
    drainLogged,     \* line 81 ran
    reqs             \* the bag of requests accepted so far

vars == <<mainpc, exitStatus, steps, failed, initErr, dbState, ledger, prevRun,
          gpc, triggeredAt,
          ignored, notified, sigquit, termDelivered, benignIgnored,
          readinessStatus, writes, inShutdown, drains,
          listening, srvErr, drainErr, drainLogged, reqs>>

mainVars == <<mainpc, exitStatus, steps, failed, initErr, dbState, ledger, prevRun>>
sigVars == <<ignored, notified, sigquit, termDelivered, benignIgnored>>
srvVars == <<inShutdown, drains, listening, srvErr>>
goVars == <<gpc, triggeredAt, readinessStatus, writes, drainErr, drainLogged>>

Alive == exitStatus = "running"

Init ==
    /\ mainpc = "parseFlags"
    /\ exitStatus = "running"
    /\ steps = <<>>
    /\ failed = "none"
    /\ initErr = FALSE
    /\ dbState = "nil"
    /\ ledger \in {SubSeq(Migrations, 1, k) : k \in 0..MaxMigrations}
    /\ prevRun = "none"
    /\ gpc = "none"
    /\ triggeredAt = "none"
    /\ ignored = {}
    /\ notified = {}
    /\ sigquit = <<>>
    /\ termDelivered = FALSE
    /\ benignIgnored = FALSE
    /\ readinessStatus = StatusOK
    /\ writes = 0
    /\ inShutdown = FALSE
    /\ drains = 0
    /\ listening = FALSE
    /\ srvErr = "nil"
    /\ drainErr = "none"
    /\ drainLogged = FALSE
    /\ reqs = EmptyBag

\* ------------------------------------------------------- process exit
\* os.Exit, logger.Fatal and the return of main end every goroutine at once
Exit(status) ==
    /\ exitStatus' = status
    /\ mainpc' = "exited"

\* logger.WithError(err).Fatal(): the entry is written and the process exits
\* with a non-zero status; deferred calls do not run
Fatal == Exit("exit1")

\* ------------------------------------------------------------ bootstrap
\* p.Parse(): no error; the help error (ErrHelp); another *flags.Error; an
\* error that is no *flags.Error; and, with no error, cfg.Version set
ParseOutcomes == {"ok", "help", "error", "other", "version"}

parseFlags_exit0 ==
    /\ Alive /\ mainpc = "parseFlags"
    /\ steps' = Append(steps, "config")
    /\ \E o \in ParseOutcomes :
         IF o = "ok"
         THEN /\ mainpc' = "New"
              /\ UNCHANGED <<exitStatus, failed>>
         ELSE /\ Exit("exit0")
              /\ failed' = IF o \in {"error", "other"} THEN "config" ELSE failed
    /\ UNCHANGED <<initErr, dbState, ledger, prevRun, sigVars, srvVars, goVars, reqs>>

\* cfg := parseFlags(): os.Exit(0) on help and on --version, os.Exit(1) on a
\* *flags.Error; on any other error flagsErr is nil and flagsErr.Error()
\* panics, which ends the process with status 2
parseFlags ==
    /\ Alive /\ mainpc = "parseFlags"
    /\ steps' = Append(steps, "config")
    /\ \E o \in ParseOutcomes :
         CASE o = "ok"      -> /\ mainpc' = "New"
                               /\ UNCHANGED <<exitStatus, failed>>
           [] o = "help"    -> /\ Exit("exit0")
                               /\ UNCHANGED failed
           [] o = "version" -> /\ Exit("exit0")
                               /\ UNCHANGED failed
           [] o = "error"   -> /\ Exit("exit1")
                               /\ failed' = "config"
           [] o = "other"   -> /\ Exit("exit2")
                               /\ failed' = "config"
    /\ UNCHANGED <<initErr, dbState, ledger, prevRun, sigVars, srvVars, goVars, reqs>>

\* initDatabase: db, err := postgres.New(dsn, logger, pcfg)
initDatabase_New ==
    /\ Alive /\ mainpc = "New"
    /\ steps' = Append(steps, "new")
    /\ \E ok \in BOOLEAN :
         IF ok
         THEN /\ dbState' = "new"
              /\ mainpc' = "Connect"
              /\ UNCHANGED <<failed, initErr>>
         ELSE /\ failed' = "new"
              /\ initErr' = TRUE
              /\ mainpc' = "checkErr"
              /\ UNCHANGED dbState
    /\ UNCHANGED <<exitStatus, ledger, prevRun, sigVars, srvVars, goVars, reqs>>

initDatabase_Connect_unchecked ==
    /\ Alive /\ mainpc = "Connect"
    /\ steps' = Append(steps, "connect")
    /\ \E ok \in BOOLEAN :
         IF ok
         THEN /\ dbState' = "connected"
              /\ UNCHANGED <<failed, initErr>>
         ELSE /\ failed' = "connect"
              /\ UNCHANGED <<dbState, initErr>>
    /\ mainpc' = "Migrate"
    /\ UNCHANGED <<exitStatus, ledger, prevRun, sigVars, srvVars, goVars, reqs>>

\* initDatabase: db.Connect()
initDatabase_Connect ==
    /\ Alive /\ mainpc = "Connect"
    /\ steps' = Append(steps, "connect")
    /\ \E ok \in BOOLEAN :
         IF ok
         THEN /\ dbState' = "connected"
              /\ mainpc' = "Migrate"
              /\ UNCHANGED <<failed, initErr>>
         ELSE /\ failed' = "connect"
              /\ initErr' = TRUE
              /\ mainpc' = "checkErr"
              /\ UNCHANGED dbState
    /\ UNCHANGED <<exitStatus, ledger, prevRun, sigVars, srvVars, goVars, reqs>>

InLedger(id) == \E j \in 1..Len(ledger) : ledger[j] = id

\* the declared migrations whose id the ledger does not hold, in declared order
Pending == SelectSeq(Migrations, LAMBDA id : ~InLedger(id))

\* db.Migrate(ms): each pending migration in declared order, stopping at the
\* first one that fails; failAt = 0 when none fails
Migrate(failAt) ==
    IF failAt = 0
    THEN ledger \o Pending
    ELSE ledger \o SubSeq(Pending, 1, failAt - 1)

initDatabase_Migrate_unchecked ==
    /\ Alive /\ mainpc = "Migrate"
    /\ steps' = Append(steps, "migrate")
    /\ \E failAt \in 0..Len(Pending) :
         /\ ledger' = Migrate(failAt)
         /\ failed' = IF failAt = 0 THEN failed ELSE "migrate"
    /\ dbState' = "migrated"
    /\ mainpc' = "checkErr"
    /\ UNCHANGED <<exitStatus, initErr, prevRun, sigVars, srvVars, goVars, reqs>>

initDatabase_Migrate_reapply ==
    /\ Alive /\ mainpc = "Migrate"
    /\ steps' = Append(steps, "migrate")
    /\ ledger' = ledger \o Migrations
    /\ dbState' = "migrated"
    /\ mainpc' = "checkErr"
    /\ UNCHANGED <<exitStatus, failed, initErr, prevRun, sigVars, srvVars, goVars, reqs>>

\* initDatabase: db.Migrate(ms)
initDatabase_Migrate ==
    /\ Alive /\ mainpc = "Migrate"
    /\ steps' = Append(steps, "migrate")
    /\ \E failAt \in 0..Len(Pending) :
         /\ ledger' = Migrate(failAt)
         /\ IF failAt = 0
            THEN /\ dbState' = "migrated"
                 /\ UNCHANGED <<failed, initErr>>
            ELSE /\ failed' = "migrate"
                 /\ initErr' = TRUE
                 /\ UNCHANGED dbState
    /\ mainpc' = "checkErr"
    /\ UNCHANGED <<exitStatus, prevRun, sigVars, srvVars, goVars, reqs>>

main_checkErr_ignored ==
    /\ Alive /\ mainpc = "checkErr"
    /\ mainpc' = "assemble"
    /\ UNCHANGED <<exitStatus, steps, failed, initErr, dbState, ledger, prevRun,
                   sigVars, srvVars, goVars, reqs>>

\* if err != nil { logger.WithError(err).Fatal() }; defer db.Close()
main_checkErr ==
    /\ Alive /\ mainpc = "checkErr"
    /\ IF initErr
       THEN Fatal
       ELSE /\ mainpc' = "assemble"
            /\ UNCHANGED exitStatus
    /\ UNCHANGED <<steps, failed, initErr, dbState, ledger, prevRun,
                   sigVars, srvVars, goVars, reqs>>

\* article.NewManager, cors.New, chi.NewRouter, r.Use, the mounts, &http.Server
main_assemble ==
    /\ Alive /\ mainpc = "assemble"
    /\ steps' = Append(steps, "pipeline")
    /\ mainpc' = "signals"
    /\ UNCHANGED <<exitStatus, failed, initErr, dbState, ledger, prevRun,
                   sigVars, srvVars, goVars, reqs>>

\* sigquit := make(chan os.Signal, 1); signal.Ignore(...); signal.Notify(...)
main_signals ==
    /\ Alive /\ mainpc = "signals"
    /\ ignored' = IgnoredSignals
    /\ notified' = NotifiedSignals
    /\ mainpc' = "go"
    /\ UNCHANGED <<exitStatus, steps, failed, initErr, dbState, ledger, prevRun,
                   sigquit, termDelivered, benignIgnored, srvVars, goVars, reqs>>

\* go func() { ... }()
main_go ==
    /\ Alive /\ mainpc = "go"
    /\ gpc' = "wait"
    /\ steps' = Append(steps, "arm")
    /\ mainpc' = "listen"
    /\ UNCHANGED <<exitStatus, failed, initErr, dbState, ledger, prevRun, sigVars,
                   srvVars, triggeredAt, readinessStatus, writes, drainErr, drainLogged, reqs>>

\* srv.ListenAndServe() is called: a server already shut down returns
\* ErrServerClosed at once; otherwise the bind succeeds or fails
ListenAndServe_call ==
    /\ Alive /\ mainpc = "listen"
    /\ steps' = Append(steps, "listen")
    /\ IF inShutdown
       THEN /\ srvErr' = "ErrServerClosed"
            /\ mainpc' = "returned"
            /\ UNCHANGED <<listening, failed>>
       ELSE \E ok \in BOOLEAN :
              IF ok
              THEN /\ listening' = TRUE
                   /\ mainpc' = "serving"
                   /\ UNCHANGED <<srvErr, failed>>
              ELSE /\ srvErr' = "bind"
                   /\ failed' = "listen"
                   /\ mainpc' = "returned"
                   /\ UNCHANGED listening
    /\ UNCHANGED <<exitStatus, initErr, dbState, ledger, prevRun, sigVars, inShutdown, drains,
                   goVars, reqs>>

\* srv.ListenAndServe() returns ErrServerClosed as soon as Shutdown has been
\* called and the listener is closed
ListenAndServe_return ==
    /\ Alive /\ mainpc = "serving"
    /\ inShutdown
    /\ srvErr' = "ErrServerClosed"
    /\ mainpc' = "returned"
    /\ UNCHANGED <<exitStatus, steps, failed, initErr, dbState, ledger, prevRun, sigVars,
                   inShutdown, drains, listening, goVars, reqs>>

\* if err != nil && err != http.ErrServerClosed { logger...Error("server error") }
\* and main reaches its closing brace
main_return ==
    /\ Alive /\ mainpc = "returned"
    /\ mainpc' = "deferred"
    /\ UNCHANGED <<exitStatus, steps, failed, initErr, dbState, ledger, prevRun, sigVars,
                   srvVars, goVars, reqs>>

\* the deferred db.Close() runs
deferred_Close ==
    /\ Alive /\ mainpc = "deferred"
    /\ dbState' = "closed"
    /\ mainpc' = "closed"
    /\ UNCHANGED <<exitStatus, steps, failed, initErr, ledger, prevRun, sigVars,
                   srvVars, goVars, reqs>>

\* main has returned: the process exits with status 0, whatever the other
\* goroutines are doing
main_exit ==
    /\ Alive /\ mainpc = "closed"
    /\ Exit("exit0")
    /\ UNCHANGED <<steps, failed, initErr, dbState, ledger, prevRun, sigVars, srvVars,
                   goVars, reqs>>

\* ---------------------------------------------------------------- signals
\* What the Go runtime does with a signal nobody asked for: SIGHUP, SIGINT and
\* SIGTERM end the program; a SIGPIPE not tied to a write on stdout or stderr
\* has no effect, one tied to such a write ends the program
DefaultDisposition(s) ==
    IF s = "SIGPIPE" THEN {"kill", "none"} ELSE {"kill"}

\* The operating system delivers signal s to the process.  signal.Notify
\* relays without blocking: a signal finding the channel full is dropped.
Deliver(s) ==
    /\ Alive
    /\ termDelivered' = (termDelivered \/ s \in {"SIGINT", "SIGTERM"})
    /\ IF s \in notified
       THEN /\ sigquit' = IF Len(sigquit) < SigquitCap
                          THEN Append(sigquit, s) ELSE sigquit
            /\ UNCHANGED <<mainpc, exitStatus, benignIgnored>>
       ELSE IF s \in ignored
       THEN /\ benignIgnored' = TRUE
            /\ UNCHANGED <<sigquit, mainpc, exitStatus>>
       ELSE \E d \in DefaultDisposition(s) :
              IF d = "kill"
              THEN /\ Exit("signal")
                   /\ UNCHANGED <<sigquit, benignIgnored>>
              ELSE UNCHANGED <<sigquit, mainpc, exitStatus, benignIgnored>>
    /\ UNCHANGED <<steps, failed, initErr, dbState, ledger, prevRun, ignored, notified,
                   srvVars, goVars, reqs>>

SignalDelivery == \E s \in Signals : Deliver(s)

\* ------------------------------------------------ the shutdown goroutine
go_receive_nowait ==
    /\ Alive /\ gpc = "wait"
    /\ sigquit' = IF sigquit # <<>> THEN Tail(sigquit) ELSE sigquit
    /\ gpc' = "triggered"
    /\ triggeredAt' = mainpc
    /\ UNCHANGED <<mainVars, ignored, notified, termDelivered, benignIgnored,
                   srvVars, readinessStatus, writes, drainErr, drainLogged, reqs>>

\* s := <-sigquit; logger.Infof("captured %v, exiting...", s)
go_receive ==
    /\ Alive /\ gpc = "wait"
    /\ sigquit # <<>>
    /\ sigquit' = Tail(sigquit)
    /\ gpc' = "triggered"
    /\ triggeredAt' = mainpc
    /\ UNCHANGED <<mainVars, ignored, notified, termDelivered, benignIgnored,
                   srvVars, readinessStatus, writes, drainErr, drainLogged, reqs>>

\* health.SetReadinessStatus(code): the process-wide status becomes code
SetReadinessStatus(code) ==
    /\ readinessStatus' = code
    /\ writes' = writes + 1

go_flip_skipped ==
    /\ Alive /\ gpc = "triggered"
    /\ gpc' = "flipped"
    /\ UNCHANGED <<mainVars, sigVars, srvVars, triggeredAt, readinessStatus, writes,
                   drainErr, drainLogged, reqs>>

go_flip_wrongStatus ==
    /\ Alive /\ gpc = "triggered"
    /\ SetReadinessStatus(StatusOK)
    /\ gpc' = "flipped"
    /\ UNCHANGED <<mainVars, sigVars, srvVars, triggeredAt, drainErr, drainLogged, reqs>>

\* health.SetReadinessStatus(http.StatusServiceUnavailable)
go_flip ==
    /\ Alive /\ gpc = "triggered"
    /\ SetReadinessStatus(StatusServiceUnavailable)
    /\ gpc' = "flipped"
    /\ UNCHANGED <<mainVars, sigVars, srvVars, triggeredAt, drainErr, drainLogged, reqs>>

\* a request is in flight from the moment it is accepted until its response
\* is written
InFlight(r) == r.st \in {"handler", "unwind"}

NoneInFlight == \A r \in BagToSet(reqs) : ~InFlight(r)

Shutdown_call_skipped ==
    /\ Alive /\ gpc = "flipped"
    /\ gpc' = "draining"
    /\ UNCHANGED <<mainVars, sigVars, srvVars, triggeredAt, readinessStatus, writes,
                   drainErr, drainLogged, reqs>>

\* logger.Info("gracefully shutdown server"); srv.Shutdown(ctx) is entered:
\* the server is marked as shutting down and its listener is closed
Shutdown_call ==
    /\ Alive /\ gpc = "flipped"
    /\ inShutdown' = TRUE
    /\ drains' = drains + 1
    /\ listening' = FALSE
    /\ gpc' = "draining"
    /\ UNCHANGED <<mainVars, sigVars, srvErr, triggeredAt, readinessStatus, writes,
                   drainErr, drainLogged, reqs>>

Shutdown_return_loop ==
    /\ Alive /\ gpc = "draining"
    /\ NoneInFlight
    /\ \E e \in {"nil", "err"} :
         /\ drainErr' = e
         /\ gpc' = IF e = "err" THEN "logErr" ELSE "wait"
    /\ UNCHANGED <<mainVars, sigVars, srvVars, triggeredAt, readinessStatus, writes,
                   drainLogged, reqs>>

\* srv.Shutdown(context.Background()) returns once no connection is active;
\* the error is the one closing the listener gave, if any
Shutdown_return ==
    /\ Alive /\ gpc = "draining"
    /\ NoneInFlight
    /\ \E e \in {"nil", "err"} :
         /\ drainErr' = e
         /\ gpc' = IF e = "err" THEN "logErr" ELSE "done"
    /\ UNCHANGED <<mainVars, sigVars, srvVars, triggeredAt, readinessStatus, writes,
                   drainLogged, reqs>>

\* logger.WithError(err).Error("could not shutdown server")
go_logErr ==
    /\ Alive /\ gpc = "logErr"
    /\ drainLogged' = TRUE
    /\ gpc' = "done"
    /\ UNCHANGED <<mainVars, sigVars, srvVars, triggeredAt, readinessStatus, writes,
                   drainErr, reqs>>

\* --------------------------------------------------------------- requests
Methods == {"GET", "OPTIONS"}

\* what a client may send: a route, a method, whether its Origin is one of
\* cfg.HTTP.AllowedOrigins (told apart for preflights only), and whether the
\* route handler panics on it (a preflight reaches no handler)
RequestInputs ==
    {r \in [route : Routes, method : Methods, originOK : BOOLEAN, panics : BOOLEAN] :
        /\ r.method = "OPTIONS" => ~r.panics
        /\ r.method = "GET" => r.originOK}

CorsShortCircuits_passthrough(method) == FALSE

\* cm.Handler: an OPTIONS request is answered by the CORS stage itself and is
\* not handed to the next stage; any other request is handed on
CorsShortCircuits(method) == method = "OPTIONS"

\* The way in: the stages of `chain` from position k on, outermost first.
\* Gives the stages entered and whether the route handler is reached.
RECURSIVE Descend(_, _, _)
Descend(chain, k, method) ==
    IF k > Len(chain)
    THEN [trace |-> <<>>, reached |-> TRUE]
    ELSE IF chain[k] = "CORS" /\ CorsShortCircuits(method)
    THEN [trace |-> <<chain[k]>>, reached |-> FALSE]
    ELSE LET rest == Descend(chain, k + 1, method)
         IN  [trace |-> <<chain[k]>> \o rest.trace, reached |-> rest.reached]

\* The way out of one stage, given the outcome o of everything inside it.
\* Recoverer turns a panic into a 500 response; RequestLogger writes its
\* entry, with the response status, after the inner handler has returned, so
\* a panic passing through it leaves no entry.
UnwindStage(stage, o) ==
    CASE stage = "Recoverer" /\ o.panicking ->
           [o EXCEPT !.panicking = FALSE, !.status = StatusInternalServerError]
      [] stage = "RequestLogger" /\ ~o.panicking ->
           [o EXCEPT !.logged = o.status]
      [] OTHER -> o

\* The way out through the stages entered, innermost first
RECURSIVE Unwind(_, _, _)
Unwind(trace, k, o) ==
    IF k = 0 THEN o ELSE Unwind(trace, k - 1, UnwindStage(trace[k], o))

\* where the shutdown goroutine stands: "armed" until it has received a
\* signal, "triggered" until SetReadinessStatus has returned, "flipped" after
Phase ==
    CASE gpc \in {"none", "wait"} -> "armed"
      [] gpc = "triggered" -> "triggered"
      [] OTHER -> "flipped"

\* a request as it is accepted
NewReq(in, d) ==
    [route |-> in.route, method |-> in.method, originOK |-> in.originOK,
     panics |-> in.panics, trace |-> d.trace,
     st |-> IF d.reached THEN "handler" ELSE "unwind",
     panicking |-> FALSE,
     status |-> IF d.reached THEN 0 ELSE StatusOK,
     logged |-> 0, readAt |-> "none", handled |-> FALSE,
     allowOrigin |-> (in.originOK /\ ~d.reached)]

Replace(r, q) == (reqs (-) SetToBag({r})) (+) SetToBag({q})

\* The server accepts a connection and the request enters the pipeline
Accept ==
    /\ Alive /\ mainpc = "serving" /\ listening
    /\ BagCardinality(reqs) < MaxRequests
    /\ \E in \in RequestInputs :
         reqs' = reqs (+) SetToBag({NewReq(in, Descend(Chain(in.route), 1, in.method))})
    /\ UNCHANGED <<mainVars, sigVars, srvVars, goVars>>

\* The route handler runs: the readiness probe answers with the current
\* readiness status, the other handlers with 200, unless the handler panics
Handle(r) ==
    /\ Alive
    /\ r.st = "handler"
    /\ reqs' = Replace(r,
           IF r.panics
           THEN [r EXCEPT !.st = "unwind", !.handled = TRUE, !.panicking = TRUE]
           ELSE IF r.route = "/readiness"
           THEN [r EXCEPT !.st = "unwind", !.handled = TRUE,
                          !.status = readinessStatus, !.readAt = Phase]
           ELSE [r EXCEPT !.st = "unwind", !.handled = TRUE, !.status = StatusOK])
    /\ UNCHANGED <<mainVars, sigVars, srvVars, goVars>>

\* The call returns through the stages and the response is written.  A panic
\* no stage recovered is recovered by the server's connection goroutine,
\* which closes the connection: no response, and the process lives on.
Respond(r) ==
    /\ Alive
    /\ r.st = "unwind"
    /\ LET o == Unwind(r.trace, Len(r.trace),
                       [panicking |-> r.panicking, status |-> r.status,
                        logged |-> r.logged])
       IN  reqs' = Replace(r,
               [r EXCEPT !.st = IF o.panicking THEN "aborted" ELSE "done",
                         !.panicking = FALSE,
                         !.status = IF o.panicking THEN 0 ELSE o.status,
                         !.logged = o.logged])
    /\ UNCHANGED <<mainVars, sigVars, srvVars, goVars>>

Handler == \E r \in BagToSet(reqs) : Handle(r)

Response == \E r \in BagToSet(reqs) : Respond(r)

\* ----------------------------------------------------------- specification
Next ==
    \/ parseFlags
    \/ initDatabase_New
    \/ initDatabase_Connect
    \/ initDatabase_Migrate
    \/ main_checkErr
    \/ main_assemble
    \/ main_signals
    \/ main_go
    \/ ListenAndServe_call
    \/ ListenAndServe_return
    \/ main_return
    \/ deferred_Close
    \/ main_exit
    \/ SignalDelivery
    \/ go_receive
    \/ go_flip
    \/ Shutdown_call
    \/ Shutdown_return
    \/ go_logErr
    \/ Accept
    \/ Handler
    \/ Response

Spec == Init /\ [][Next]_vars

\* the steps of the main goroutine
MainStep ==
    \/ parseFlags
    \/ initDatabase_New
    \/ initDatabase_Connect
    \/ initDatabase_Migrate
    \/ main_checkErr
    \/ main_assemble
    \/ main_signals
    \/ main_go
    \/ ListenAndServe_call
    \/ ListenAndServe_return
    \/ main_return
    \/ deferred_Close
    \/ main_exit

\* the steps of the shutdown goroutine
GoStep ==
    \/ go_receive
    \/ go_flip
    \/ Shutdown_call
    \/ Shutdown_return
    \/ go_logErr

\* The Go scheduler lets every goroutine that can run take its next step
FairSpec == Spec /\ WF_vars(MainStep) /\ WF_vars(GoStep)

\* The process, once a run that got through its bootstrap has exited, is
\* started again against the same store: everything starts afresh but the
\* ledger, which the store keeps.  One restart is followed.
Restart ==
    /\ mainpc = "exited"
    /\ prevRun = "none"
    /\ dbState \in {"migrated", "closed"}
    /\ prevRun' = "migrated"
    /\ mainpc' = "parseFlags"
    /\ exitStatus' = "running"
    /\ steps' = <<>>
    /\ failed' = "none"
    /\ initErr' = FALSE
    /\ dbState' = "nil"
    /\ gpc' = "none"
    /\ triggeredAt' = "none"
    /\ ignored' = {}
    /\ notified' = {}
    /\ sigquit' = <<>>
    /\ termDelivered' = FALSE
    /\ benignIgnored' = FALSE
    /\ readinessStatus' = StatusOK
    /\ writes' = 0
    /\ inShutdown' = FALSE
    /\ drains' = 0
    /\ listening' = FALSE
    /\ srvErr' = "nil"
    /\ drainErr' = "none"
    /\ drainLogged' = FALSE
    /\ reqs' = EmptyBag
    /\ UNCHANGED ledger

NextRestart == Next \/ Restart

SpecRestart == Init /\ [][NextRestart]_vars

\* ------------------------------------------------------------- properties
Range(f) == {f[k] : k \in DOMAIN f}

R == BagToSet(reqs)

\* position of a stage in the sequence of stages a request entered, 0 if absent
Pos(trace, stage) ==
    IF \E k \in 1..Len(trace) : trace[k] = stage
    THEN CHOOSE k \in 1..Len(trace) : trace[k] = stage
    ELSE 0

Before(trace, a, b) == 0 < Pos(trace, a) /\ Pos(trace, a) < Pos(trace, b)

Draining == gpc \in {"draining", "logErr", "done"}

\* a readiness probe whose handler has read the status
Probed(r) == r.route = "/readiness" /\ r.readAt # "none"

\* C1: whenever the server drain (srv.Shutdown) has been requested, the
\* readiness status is already UNAVAILABLE: no state has the drain requested
\* and readiness still OK.
C1_FlipBeforeDrain ==
    (inShutdown \/ Draining) => readinessStatus = StatusServiceUnavailable

C1_Witness ==
    /\ gpc = "draining" /\ inShutdown
    /\ readinessStatus = StatusServiceUnavailable
    /\ triggeredAt = "serving"

\* C2: readiness is OK at startup; it is UNAVAILABLE only if a termination
\* signal has been delivered and received by the shutdown goroutine; from
\* Draining on the status is UNAVAILABLE, every probe that reads it then gets
\* UNAVAILABLE, and once UNAVAILABLE it never becomes OK again.
C2_ReadinessMonotone ==
    /\ readinessStatus = StatusOK
    /\ [](readinessStatus \in {StatusOK, StatusServiceUnavailable})
    /\ [](readinessStatus = StatusServiceUnavailable
            => termDelivered /\ gpc \notin {"none", "wait"})
    /\ [](Draining => readinessStatus = StatusServiceUnavailable)
    /\ [][readinessStatus = StatusServiceUnavailable
            => readinessStatus' = StatusServiceUnavailable]_vars
    /\ [][\A r \in BagToSet(reqs) :
            (Draining /\ Handle(r) /\ r.route = "/readiness" /\ ~r.panics)
               => \E q \in BagToSet(reqs') :
                     q.readAt = "flipped" /\ q.status = StatusServiceUnavailable]_vars

C2_Witness ==
    /\ gpc = "done"
    /\ readinessStatus = StatusServiceUnavailable
    /\ \E r \in R : Probed(r) /\ r.st = "done" /\ r.status = StatusServiceUnavailable

\* C3: a readiness probe that reads the status before the shutdown goroutine
\* has received a termination signal answers 200, and one that reads it after
\* the flip answers a non-2xx status (503), in every interleaving of probes
\* and signal; a stale 200 can only come from a read between the receipt of
\* the signal and the flip.
C3_ProbeFollowsSignal ==
    \A r \in R :
        Probed(r) =>
            /\ r.readAt = "armed" => r.status = StatusOK
            /\ r.readAt = "flipped" => r.status = StatusServiceUnavailable
            /\ r.status = StatusOK => r.readAt \in {"armed", "triggered"}
            /\ r.st = "done" => r.logged = r.status

C3_Witness ==
    \E r, q \in R :
        /\ Probed(r) /\ r.st = "done" /\ r.readAt = "armed" /\ r.status = StatusOK
        /\ Probed(q) /\ q.st = "done" /\ q.readAt = "flipped"
        /\ q.status = StatusServiceUnavailable

\* C4: the process does not exit after a shutdown while a request is still
\* in flight: when main has returned following the drain request, every
\* accepted request has got its response.
C4_NoExitWhileInFlight ==
    (exitStatus = "exit0" /\ inShutdown) => NoneInFlight

\* C5: when connecting to the store or applying the migrations has failed,
\* the listener is never started and no request is ever accepted, and the
\* process ends abnormally (status 1, or killed by a signal); a request is only ever accepted with
\* the store connected and every declared migration in the ledger.
C5_FailFast ==
    /\ initErr =>
          /\ ~listening /\ reqs = EmptyBag
          /\ "pipeline" \notin Range(steps) /\ "listen" \notin Range(steps)
          /\ mainpc = "exited" => exitStatus \in {"exit1", "signal"}
    /\ (listening \/ reqs # EmptyBag \/ "listen" \in Range(steps)) =>
          /\ ~initErr /\ Pending = <<>>
          /\ dbState \in {"migrated", "closed"}
          /\ dbState = "closed" => mainpc \in {"closed", "exited"}

C5_Witness ==
    /\ failed \in {"connect", "migrate"}
    /\ exitStatus = "exit1"
    /\ reqs = EmptyBag /\ ~listening

\* the order of the bootstrap steps in main and initDatabase
BootOrder == <<"config", "new", "connect", "migrate", "pipeline", "arm", "listen">>

\* C6: the bootstrap steps are attempted in the order configuration,
\* connection (handle, then connect), migrations, pipeline, listener, each
\* only after the one before succeeded; the step that failed is the last one
\* attempted; and the shutdown goroutine is armed whenever the server listens.
C6_BootOrder ==
    /\ Len(steps) <= Len(BootOrder)
    /\ steps = SubSeq(BootOrder, 1, Len(steps))
    /\ failed # "none" => steps # <<>> /\ steps[Len(steps)] = failed
    /\ "migrate" \in Range(steps) => dbState # "nil" /\ dbState # "new"
    /\ "pipeline" \in Range(steps) => Pending = <<>>
    /\ listening => gpc # "none"

C6_Witness ==
    /\ failed = "connect" /\ mainpc = "exited"
    /\ steps = <<"config", "new", "connect">>

\* C7: the shutdown goroutine leaves Armed, readiness is flipped and the
\* drain is requested only after a SIGINT or SIGTERM has been delivered;
\* SIGHUP and SIGPIPE never reach the channel, and once the handlers are
\* installed they change nothing.
C7_OnlyTermSignals ==
    /\ (gpc \notin {"none", "wait"} \/ inShutdown
          \/ readinessStatus # StatusOK \/ sigquit # <<>>) => termDelivered
    /\ Range(sigquit) \subseteq {"SIGINT", "SIGTERM"}
    /\ benignIgnored /\ ~termDelivered => exitStatus # "signal"

C7_Witness ==
    /\ benignIgnored /\ ~termDelivered
    /\ mainpc = "serving" /\ gpc = "wait"
    /\ readinessStatus = StatusOK /\ ~inShutdown

\* C8: when the process exits after the shutdown goroutine received a
\* termination signal while the server was serving, the goroutine has
\* reached Done (srv.Shutdown returned, its error logged).
C8_DoneBeforeExit ==
    (mainpc = "exited" /\ triggeredAt = "serving") => gpc = "done"

\* C9: when srv.Shutdown, called after a signal received while serving, has
\* returned an error, the process still exits by the fall-through of main
\* (status 0) and the error has been logged by the time it exits.
C9_DrainErrorLogged ==
    (mainpc = "exited" /\ triggeredAt = "serving" /\ drainErr = "err") =>
        /\ exitStatus = "exit0"
        /\ drainLogged

\* C10: a request whose route handler panicked ends with a 500 response and
\* a log entry carrying that status, and the process is not brought down by
\* it: it keeps running, or exits later by the normal return of main.
C10_PanicLogged ==
    \A r \in R :
        (r.panics /\ r.st \notin {"handler", "unwind"}) =>
            /\ r.st = "done"
            /\ r.status = StatusInternalServerError
            /\ r.logged = StatusInternalServerError
            /\ exitStatus \in {"running", "exit0"}

C10_Witness ==
    \E r, q \in R :
        /\ r.panics /\ r.st = "done" /\ r.logged = StatusInternalServerError
        /\ ~q.panics /\ q.method = "GET" /\ q.st = "handler"
        /\ Alive /\ listening

\* C11: every request, whatever its route, enters the request-id stage and
\* the client-address stage before the request logger, and the logger before
\* panic recovery, which comes before CORS: the five global stages run in
\* the order they were inserted, outermost first.
C11_StageOrder ==
    \A r \in R :
        /\ Before(r.trace, "RequestID", "RealIP")
        /\ Before(r.trace, "RequestID", "RequestLogger")
        /\ Before(r.trace, "RealIP", "RequestLogger")
        /\ Before(r.trace, "RequestLogger", "Recoverer")
        /\ Before(r.trace, "Recoverer", "CORS")
        /\ Pos(r.trace, "CORS") = 5

C11_Witness ==
    \E r, q \in R :
        /\ r.route = "/docs" /\ r.st = "done" /\ r.handled
        /\ q.route = "/readiness" /\ q.st = "done" /\ q.handled

\* C12: a preflight (OPTIONS) request from an origin that is not allowed
\* stops at the CORS stage on every route: it reaches neither the versioning
\* stage nor a route handler, and its response grants the origin nothing.
C12_PreflightStopsAtCors ==
    \A r \in R :
        (r.method = "OPTIONS" /\ ~r.originOK) =>
            /\ ~r.handled /\ r.st # "handler"
            /\ r.trace # <<>> /\ r.trace[Len(r.trace)] = "CORS"
            /\ "ApiVersion" \notin Range(r.trace)
            /\ ~r.allowOrigin
            /\ r.readAt = "none"

C12_Witness ==
    \E r, q \in R :
        /\ r.method = "OPTIONS" /\ ~r.originOK /\ r.route = "/readiness" /\ r.st = "done"
        /\ q.method = "OPTIONS" /\ ~q.originOK /\ q.route = "/1.0/articles" /\ q.st = "done"

\* C13: when the process is started again after a run whose migrations all
\* succeeded, with the same declared list and the same store, db.Migrate
\* succeeds, applies no migration and adds no ledger entry.
C13_MigrateIdempotent ==
    [][(prevRun = "migrated" /\ mainpc = "Migrate" /\ mainpc' = "checkErr")
          => /\ ledger' = ledger
             /\ ~initErr'
             /\ dbState' = "migrated"]_vars

C13_Witness ==
    /\ prevRun = "migrated"
    /\ mainpc = "checkErr" /\ ~initErr
    /\ ledger = Migrations

IsPrefix(a, b) == Len(a) <= Len(b) /\ a = SubSeq(b, 1, Len(a))

\* C14: db.Migrate records the pending migrations in declared order up to,
\* and not including, the first one that fails, and nothing after it; what
\* the ledger held stays in it; and when a migration failed the error is
\* returned from initDatabase, so that no pipeline is built, no listener is
\* opened and no request is accepted.
C14_StopAtFirstFailure ==
    /\ [](failed = "migrate" =>
            /\ initErr /\ Pending # <<>>
            /\ dbState # "migrated"
            /\ "pipeline" \notin Range(steps) /\ "listen" \notin Range(steps)
            /\ ~listening /\ reqs = EmptyBag
            /\ mainpc \in {"checkErr", "exited"})
    /\ [][(mainpc = "Migrate" /\ mainpc' = "checkErr") =>
            \E n \in 0..Len(Pending) :
                /\ ledger' = ledger \o SubSeq(Pending, 1, n)
                /\ (failed' = "migrate") <=> (n < Len(Pending))]_vars
    /\ [][IsPrefix(ledger, ledger')]_vars

C14_Witness ==
    /\ failed = "migrate"
    /\ ledger = <<1>>
    /\ mainpc = "exited" /\ exitStatus = "exit1"

\* C15: when the process has ended by its own doing (return of main, or
\* os.Exit) in a run in which db.Connect succeeded, the connection handle
\* has been closed.
C15_HandleClosed ==
    (mainpc = "exited" /\ exitStatus \in {"exit0", "exit1"}
        /\ dbState \notin {"nil", "new"}) => dbState = "closed"

\* C16: a configuration, connection or migration error ends the process
\* with a status other than 0 and nothing else of main runs after it; after
\* a configuration error no connection handle was ever created.
C16_FatalNonZero ==
    /\ (failed \in {"config", "new", "connect", "migrate"} /\ mainpc = "exited")
          => exitStatus \in {"exit1", "exit2", "signal"}
    /\ failed \in {"new", "connect", "migrate"} => mainpc \in {"checkErr", "exited"}
    /\ failed = "config" =>
          /\ mainpc = "exited"
          /\ steps = <<"config">>
          /\ dbState = "nil"

C16_Witness ==
    /\ failed = "config"
    /\ exitStatus = "exit1"

\* C17: in one run of the process the readiness status is written at most
\* once, the server drain is requested at most once, and the status changes
\* only in the shutdown goroutine's call of SetReadinessStatus, however many
\* termination signals are delivered.
C17_WrittenOnce ==
    /\ [](writes <= 1 /\ drains <= 1)
    /\ [](writes = 1 <=> gpc \in {"flipped", "draining", "logErr", "done"})
    /\ [](drains = 1 <=> inShutdown)
    /\ [][(readinessStatus' # readinessStatus \/ writes' # writes)
             => gpc = "triggered" /\ gpc' = "flipped"]_vars

C17_Witness ==
    /\ gpc = "draining"
    /\ sigquit # <<>>
    /\ writes = 1 /\ drains = 1

\* C18: a request handled by a route under /1.0 has entered the five global
\* stages and then the versioning stage, in that order, and nothing else; a
\* request to /readiness or to /docs never enters the versioning stage.
C18_VersioningScope ==
    \A r \in R :
        /\ (r.route = "/1.0/articles" /\ r.handled) =>
              r.trace = <<"RequestID", "RealIP", "RequestLogger", "Recoverer",
                          "CORS", "ApiVersion">>
        /\ r.route \in {"/readiness", "/docs"} => "ApiVersion" \notin Range(r.trace)

C18_Witness ==
    \E r, q \in R :
        /\ r.route = "/1.0/articles" /\ r.handled /\ r.st = "done"
        /\ q.route = "/docs" /\ q.handled /\ q.st = "done"

\* C20: the connection handle is closed only when no route handler is
\* running: once db.Close() has run, no request is in its handler.
C20_NoCloseWhileInFlight ==
    dbState = "closed" => \A r \in R : r.st # "handler"

\* C19: the handlers are installed and the goroutine started before the
\* server listens; a SIGINT or SIGTERM that finds the process alive is in the
\* channel or has been received by the goroutine; the listen call returns
\* ErrServerClosed only with readiness flipped; and with every goroutine
\* scheduled, a process that has got such a signal, or whose readiness is
\* UNAVAILABLE, exits: none stays serving for ever.  A delivered signal, a
\* flipped readiness and an exit are each permanent, so "the signalled
\* process exits" is "again and again, the process is unsignalled or has
\* exited".
C19_SignalLeadsToExit ==
    /\ []((mainpc \in {"listen", "serving"} \/ listening)
            => notified = {"SIGINT", "SIGTERM"} /\ gpc # "none")
    /\ []((Alive /\ termDelivered)
            => sigquit # <<>> \/ gpc \notin {"none", "wait"})
    /\ [](srvErr = "ErrServerClosed"
            => readinessStatus = StatusServiceUnavailable)
    /\ [][/\ termDelivered => termDelivered'
          /\ readinessStatus = StatusServiceUnavailable
                => readinessStatus' = StatusServiceUnavailable
          /\ mainpc = "exited" => mainpc' = "exited"]_vars
    /\ []<>(\/ mainpc = "exited"
            \/ ~(termDelivered \/ readinessStatus = StatusServiceUnavailable))

C19_Witness ==
    /\ triggeredAt \in {"go", "listen"}
    /\ readinessStatus = StatusServiceUnavailable
    /\ mainpc = "exited" /\ exitStatus = "exit0"
    /\ srvErr = "ErrServerClosed"

====
